---- MODULE Spec2Model ----
(***************************************************************************)
(* CI/CD Root Cause Analyzer: the LangGraph workflow of                    *)
(* src/src/graph/workflow.py over the GraphState of src/src/graph/state.py.*)
(*                                                                         *)
(* An Optional[T] field is a sequence of length at most one: None is <<>>  *)
(* and a present value v is <<v>>.  Strings are TLA+ strings, so the       *)
(* f-strings of the code are modelled by concatenation.                    *)
(*                                                                         *)
(* The log parser of src/src/tools/log_parser.py and its classifier are    *)
(* pure functions.  They are modelled as operators over strings and run    *)
(* under specifications of their own (ParseSpec, ClassifySpec) that draw   *)
(* the argument of one call into the variable input and leave what the     *)
(* call returns in the variable output.                                    *)
(*                                                                         *)
(* Time is the value of time.time() in whole seconds since the start of    *)
(* the run; calls holds the time of every chain.invoke so far.  The helper *)
(* rate_limited_invoke of src/src/utils/llm.py runs under InvokeSpec, with *)
(* its global _last_call_time, its loop variable attempt and the sleeps it *)
(* has made in slept.                                                      *)
(***************************************************************************)
EXTENDS Integers, Sequences, FiniteSets, TLC

VARIABLES state, node, ran, pc, input, output,
          time, calls, last_call_time, attempt, slept

vars ==
  <<state, node, ran, pc, input, output,
    time, calls, last_call_time, attempt, slept>>

(***************************************************************************)
(* Bounds of the model.                                                    *)
(***************************************************************************)
\* largest number of errors in a LogParseResult handed to the parse stage
MaxErrors == 2
\* cap on the number of node executions of one invocation of the graph
MaxSteps == 8
\* longest time, in seconds, one node takes from its start to its return
MaxStageSeconds == 1

(***************************************************************************)
(* Program constants.                                                      *)
(***************************************************************************)
MAX_FAILURES == 3
RootCauseChars == 50
MIN_DELAY_BETWEEN_CALLS == 2
MAX_RETRIES == 3
BACKOFF_FACTOR == 2

None == <<>>
Some(v) == <<v>>

Min(a, b) == IF a < b THEN a ELSE b

\* s[:n] of Python
Prefix(s, n) == SubSeq(s, 1, Min(n, Len(s)))

(***************************************************************************)
(* WorkflowPhase                                                           *)
(***************************************************************************)
INITIALIZED == "initialized"
INGESTING == "ingesting"
PARSING == "parsing"
TRIAGING == "triaging"
RESEARCHING == "researching"
SYNTHESIZING == "synthesizing"
COMPLETED == "completed"
FAILED == "failed"

WorkflowPhase ==
  {INITIALIZED, INGESTING, PARSING, TRIAGING, RESEARCHING, SYNTHESIZING,
   COMPLETED, FAILED}

(***************************************************************************)
(* Values the external collaborators can hand to the stages.               *)
(***************************************************************************)
Repos == {"owner/a", "owner/b"}

Exceptions == {"ThrottlingException", "connection reset"}

\* what fetch_failed_build_logs returns (a path) and what read_text gives
FetchedLogs ==
  { [path |-> "output/build_log.txt", content |-> ""],
    [path |-> "output/build_log.txt", content |-> "ModuleNotFoundError: x"],
    [path |-> "logs/run.txt", content |-> "npm ERR! missing script: test"] }

ParsedErrors ==
  { [error_type |-> "ModuleNotFoundError",
     error_message |-> "No module named 'requests'",
     error_category |-> "dependency"],
    [error_type |-> "SyntaxError",
     error_message |-> "invalid syntax",
     error_category |-> "syntax"] }

ErrorLists == UNION { [1..n -> ParsedErrors] : n \in 0..MaxErrors }

\* LogParser.parse_file when the file does not exist
FileNotFoundResult(file_path) ==
  [success |-> FALSE, errors |-> <<>>, primary_error |-> None,
   error_count |-> 0, summary |-> "Log file not found: " \o file_path]

LogParseResult_LastIsPrimary(errors) ==
  [success |-> TRUE,
   errors |-> errors,
   primary_error |-> IF errors = <<>> THEN None ELSE Some(errors[Len(errors)]),
   error_count |-> Len(errors),
   summary |-> IF errors = <<>>
               THEN "No specific error identified (check raw logs)"
               ELSE errors[Len(errors)].error_type \o ": "
                    \o Prefix(errors[Len(errors)].error_message, 100)]

\* STEP 6 of LogParser.parse_content
LogParseResult(errors) ==
  [success |-> TRUE,
   errors |-> errors,
   primary_error |-> IF errors = <<>> THEN None ELSE Some(errors[1]),
   error_count |-> Len(errors),
   summary |-> IF errors = <<>>
               THEN "No specific error identified (check raw logs)"
               ELSE errors[1].error_type \o ": "
                    \o Prefix(errors[1].error_message, 100)]

\* every result parse_log_file can return for the file at file_path
ParseResults(file_path) ==
  {FileNotFoundResult(file_path)} \cup {LogParseResult(es) : es \in ErrorLists}

TriageResults ==
  { [severity |-> "high",
     root_cause |-> "The requests package is not installed in the CI environment"],
    [severity |-> "low", root_cause |-> "typo"] }

ResearchResults ==
  { [solutions |-> <<>>], [solutions |-> <<"pip install requests">>] }

DebuggingBriefs ==
  { [fix_suggestions |-> <<"add install step">>],
    [fix_suggestions |-> <<"add install step", "pin version">>] }

\* a collaborator call either returns a value (ret) or raises (exc)
Returns(v) == [ret |-> v, exc |-> None]
Raises(e) == [ret |-> None, exc |-> Some(e)]

Outcomes(values) ==
  {Returns(Some(v)) : v \in values} \cup {Raises(e) : e \in Exceptions}

(***************************************************************************)
(* GraphState                                                              *)
(***************************************************************************)
Fields ==
  {"repo_name", "raw_log_content", "log_file_path", "workflow_run_id",
   "parse_result", "primary_error", "triage_result", "research_result",
   "debugging_brief", "current_phase", "next_action", "messages",
   "error_message", "started_at", "completed_at"}

GraphState(repo_name, current_phase, started_at, messages) ==
  [f \in Fields |->
     CASE f = "repo_name" -> repo_name
       [] f = "current_phase" -> current_phase
       [] f = "started_at" -> started_at
       [] f = "messages" -> messages
       [] OTHER -> None]

create_initial_state(repo_name) ==
  GraphState(repo_name, INITIALIZED, Some("now"),
             <<"Workflow initialized for repository: " \o repo_name>>)

\* Reduce with the messages channel declared without its operator.add
Reduce_Overwrite(f, old, new) == new

\* the reducer of a field: operator.add for messages, overwrite otherwise
Reduce(f, old, new) == IF f = "messages" THEN old \o new ELSE new

\* merge of a node's partial update into the state
Merge(s, update) ==
  [f \in Fields |->
     IF f \in DOMAIN update THEN Reduce(f, s[f], update[f]) ELSE s[f]]

\* Python truthiness of an Optional[str] and of an Optional[BaseModel]
FalsyStr(o) == o = None \/ o[1] = ""
FalsyObj(o) == o = None

(***************************************************************************)
(* Stage functions.  X_try is the body of the try block of node X: it      *)
(* either returns a partial update or raises; X_node adds the except       *)
(* clause.  The second argument is what the stage's collaborator does on   *)
(* this call.                                                              *)
(***************************************************************************)
Return(update) == [update |-> update, exc |-> None]
Raise(e) == [update |-> <<>>, exc |-> Some(e)]

\* FailureUpdate that leaves the phase tag as the last successful stage set it
FailureUpdate_KeepPhase(error_message, message) ==
  ("error_message" :> Some(error_message)) @@ ("messages" :> <<message>>)

\* FailureUpdate that reports the failure in the audit log only
FailureUpdate_NoErrorMessage(error_message, message) ==
  ("current_phase" :> FAILED) @@ ("messages" :> <<message>>)

\* the update every failing return of a node builds
FailureUpdate(error_message, message) ==
  ("current_phase" :> FAILED) @@ ("error_message" :> Some(error_message))
  @@ ("messages" :> <<message>>)

\* a node without its except clause: the exception leaves the node
Except_Reraise(prefix, r) == r

\* an except clause that also rolls the ingested log back
Except_Rollback(prefix, r) ==
  IF r.exc # None
  THEN Return(("current_phase" :> FAILED)
              @@ ("error_message" :> Some(prefix \o " failed: " \o r.exc[1]))
              @@ ("messages" :> <<prefix \o ": Error - " \o r.exc[1]>>)
              @@ ("raw_log_content" :> None)
              @@ ("log_file_path" :> None))
  ELSE r

\* except Exception as e: ... of node X (prefix is "Ingest", "Parse", ...)
Except(prefix, r) ==
  IF r.exc # None
  THEN Return(FailureUpdate(prefix \o " failed: " \o r.exc[1],
                            prefix \o ": Error - " \o r.exc[1]))
  ELSE r

\* ingest_try that treats "no failed build" as a normal, error-free outcome
ingest_try_AbsentIsNormal(s, fetched) ==
  IF fetched.exc # None THEN Raise(fetched.exc[1])
  ELSE IF fetched.ret = None
  THEN Return(("current_phase" :> INGESTING)
              @@ ("messages" :> <<"Ingest: No failed builds to analyze">>))
  ELSE Return(("raw_log_content" :> Some(fetched.ret[1].content))
              @@ ("log_file_path" :> Some(fetched.ret[1].path))
              @@ ("current_phase" :> PARSING)
              @@ ("messages" :>
                    <<"Ingest: Fetched logs ("
                      \o ToString(Len(fetched.ret[1].content)) \o " chars)">>))

ingest_try(s, fetched) ==
  IF fetched.exc # None THEN Raise(fetched.exc[1])
  ELSE IF fetched.ret = None
  THEN Return(FailureUpdate("No failed builds found or build succeeded",
                            "Ingest: No failed builds to analyze"))
  ELSE LET log_path == fetched.ret[1].path
           log_content == fetched.ret[1].content
       IN Return(("raw_log_content" :> Some(log_content))
                 @@ ("log_file_path" :> Some(log_path))
                 @@ ("current_phase" :> PARSING)
                 @@ ("messages" :>
                       <<"Ingest: Fetched logs ("
                         \o ToString(Len(log_content)) \o " chars)">>))

ingest_node(s, fetched) == Except("Ingest", ingest_try(s, fetched))

parse_try(s, parsed) ==
  IF FalsyStr(s.log_file_path)
  THEN Return(FailureUpdate("No log file to parse",
                            "Parse: No log file available"))
  ELSE IF parsed.exc # None THEN Raise(parsed.exc[1])
  ELSE LET result == parsed.ret[1] IN
       IF FalsyObj(result.primary_error)
       THEN Return(FailureUpdate("No errors found in logs",
                                 "Parse: No errors detected in logs"))
       ELSE Return(("parse_result" :> Some(result))
                   @@ ("primary_error" :> result.primary_error)
                   @@ ("current_phase" :> TRIAGING)
                   @@ ("messages" :>
                         <<"Parse: Found " \o ToString(result.error_count)
                           \o " error(s)">>))

parse_node(s, parsed) == Except("Parse", parse_try(s, parsed))

\* triage_try whose success names the phase of the stage before it
triage_try_WrongPhase(s, analyzed) ==
  IF FalsyObj(s.primary_error)
  THEN Return(FailureUpdate("No error to triage",
                            "Triage: No error available"))
  ELSE IF analyzed.exc # None THEN Raise(analyzed.exc[1])
  ELSE Return(("triage_result" :> Some(analyzed.ret[1]))
              @@ ("current_phase" :> PARSING)
              @@ ("messages" :>
                    <<"Triage: " \o analyzed.ret[1].severity \o " severity - "
                      \o Prefix(analyzed.ret[1].root_cause, RootCauseChars)
                      \o "...">>))

triage_try(s, analyzed) ==
  IF FalsyObj(s.primary_error)
  THEN Return(FailureUpdate("No error to triage",
                            "Triage: No error available"))
  ELSE IF analyzed.exc # None THEN Raise(analyzed.exc[1])
  ELSE LET result == analyzed.ret[1] IN
       Return(("triage_result" :> Some(result))
              @@ ("current_phase" :> RESEARCHING)
              @@ ("messages" :>
                    <<"Triage: " \o result.severity \o " severity - "
                      \o Prefix(result.root_cause, RootCauseChars) \o "...">>))

triage_node(s, analyzed) == Except("Triage", triage_try(s, analyzed))

research_try(s, researched) ==
  IF FalsyObj(s.triage_result) \/ FalsyObj(s.primary_error)
  THEN Return(FailureUpdate("Missing triage or error data",
                            "Research: Missing required data"))
  ELSE IF researched.exc # None THEN Raise(researched.exc[1])
  ELSE LET result == researched.ret[1] IN
       Return(("research_result" :> Some(result))
              @@ ("current_phase" :> SYNTHESIZING)
              @@ ("messages" :>
                    <<"Research: Found " \o ToString(Len(result.solutions))
                      \o " solutions">>))

research_node(s, researched) == Except("Research", research_try(s, researched))

\* synthesize_try whose success returns the brief and nothing else
synthesize_try_BriefOnly(s, synthesized) ==
  IF FalsyObj(s.primary_error) \/ FalsyObj(s.triage_result)
     \/ FalsyObj(s.research_result)
  THEN Return(FailureUpdate("Missing data for synthesis",
                            "Synthesis: Missing required data"))
  ELSE IF synthesized.exc # None THEN Raise(synthesized.exc[1])
  ELSE Return(("debugging_brief" :> Some(synthesized.ret[1]))
              @@ ("messages" :>
                    <<"Synthesis: Generated brief with "
                      \o ToString(Len(synthesized.ret[1].fix_suggestions))
                      \o " fixes">>))

synthesize_try(s, synthesized) ==
  IF FalsyObj(s.primary_error) \/ FalsyObj(s.triage_result)
     \/ FalsyObj(s.research_result)
  THEN Return(FailureUpdate("Missing data for synthesis",
                            "Synthesis: Missing required data"))
  ELSE IF synthesized.exc # None THEN Raise(synthesized.exc[1])
  ELSE LET brief == synthesized.ret[1] IN
       Return(("debugging_brief" :> Some(brief))
              @@ ("current_phase" :> COMPLETED)
              @@ ("completed_at" :> Some("now"))
              @@ ("messages" :>
                    <<"Synthesis: Generated brief with "
                      \o ToString(Len(brief.fix_suggestions)) \o " fixes">>))

synthesize_node(s, synthesized) ==
  Except("Synthesis", synthesize_try(s, synthesized))

(***************************************************************************)
(* Routing functions and the graph of create_workflow.                     *)
(***************************************************************************)
END == "__end__"

\* a failed ingest is executed again
route_after_ingest_Retry(s) ==
  IF s.current_phase = FAILED THEN "ingest" ELSE "parse"

route_after_ingest(s) == IF s.current_phase = FAILED THEN "end" ELSE "parse"
\* parse hands over to research, not to triage
route_after_parse_SkipTriage(s) ==
  IF s.current_phase = FAILED THEN "end" ELSE "research"

route_after_parse(s) == IF s.current_phase = FAILED THEN "end" ELSE "triage"
\* route_after_triage that sends a failed triage back to triage
route_after_triage_Retry(s) ==
  IF s.current_phase = FAILED THEN "triage" ELSE "research"

route_after_triage(s) == IF s.current_phase = FAILED THEN "end" ELSE "research"
\* a failed research is executed again
route_after_research_Retry(s) ==
  IF s.current_phase = FAILED THEN "research" ELSE "synthesize"

route_after_research(s) ==
  IF s.current_phase = FAILED THEN "end" ELSE "synthesize"

Nodes == {"ingest", "parse", "triage", "research", "synthesize"}

\* the edge leaving node n when the merged state is s
Edge(n, s) ==
  LET label == CASE n = "ingest" -> route_after_ingest(s)
                 [] n = "parse" -> route_after_parse(s)
                 [] n = "triage" -> route_after_triage(s)
                 [] n = "research" -> route_after_research(s)
                 [] n = "synthesize" -> "end"
  IN IF label = "end" THEN END ELSE label

(***************************************************************************)
(* The run: run_analysis builds the initial state and invokes the graph;   *)
(* each action executes one node, merges its update and follows the edge.  *)
(* An exception that leaves a node leaves workflow.invoke and run_analysis.*)
(***************************************************************************)
Init ==
  /\ \E repo_name \in Repos : state = create_initial_state(repo_name)
  /\ node = "ingest"
  /\ ran = <<>>
  /\ pc = "running"
  /\ input = None
  /\ output = None
  /\ time = 0
  /\ calls = <<>>
  /\ last_call_time = 0
  /\ attempt = 0
  /\ slept = <<>>

\* the seconds a node can take: fetching, searching and the model's answer
StageSeconds == 1..MaxStageSeconds

\* the nodes whose agent sends a prompt to the model
ModelStages == {"triage", "research", "synthesize"}

\* node n, executed on state s, gets as far as the chain.invoke of its agent
InvokesChain(n, s) ==
  CASE n = "triage" -> ~FalsyObj(s.primary_error)
    [] n = "research" ->
         ~(FalsyObj(s.triage_result) \/ FalsyObj(s.primary_error))
    [] n = "synthesize" ->
         ~(FalsyObj(s.primary_error) \/ FalsyObj(s.triage_result)
           \/ FalsyObj(s.research_result))
    [] OTHER -> FALSE

Execute(n, r) ==
  /\ ran' = Append(ran, n)
  /\ IF r.exc # None
     THEN /\ pc' = "raised"
          /\ UNCHANGED <<state, node>>
     ELSE /\ state' = Merge(state, r.update)
          /\ node' = Edge(n, Merge(state, r.update))
          /\ pc' = pc
  /\ calls' = IF InvokesChain(n, state) THEN Append(calls, time) ELSE calls
  /\ \E seconds \in StageSeconds : time' = time + seconds
  /\ UNCHANGED <<input, output, last_call_time, attempt, slept>>

AtNode(n) == pc = "running" /\ node = n /\ Len(ran) < MaxSteps

ingest ==
  /\ AtNode("ingest")
  /\ \E fetched \in {Returns(None)} \cup Outcomes(FetchedLogs) :
       Execute("ingest", ingest_node(state, fetched))

parse ==
  /\ AtNode("parse")
  /\ \E parsed \in IF FalsyStr(state.log_file_path)
                   THEN {Returns(None)}
                   ELSE Outcomes(ParseResults(state.log_file_path[1])) :
       Execute("parse", parse_node(state, parsed))

triage ==
  /\ AtNode("triage")
  /\ \E analyzed \in Outcomes(TriageResults) :
       Execute("triage", triage_node(state, analyzed))

research ==
  /\ AtNode("research")
  /\ \E researched \in Outcomes(ResearchResults) :
       Execute("research", research_node(state, researched))

synthesize ==
  /\ AtNode("synthesize")
  /\ \E synthesized \in Outcomes(DebuggingBriefs) :
       Execute("synthesize", synthesize_node(state, synthesized))

\* workflow.invoke returns the final state to run_analysis
run_analysis ==
  /\ pc = "running"
  /\ node = END
  /\ pc' = "returned"
  /\ UNCHANGED <<state, node, ran, input, output>>
  /\ UNCHANGED <<time, calls, last_call_time, attempt, slept>>

Next == ingest \/ parse \/ triage \/ research \/ synthesize \/ run_analysis

Spec == Init /\ [][Next]_vars

\* the graph always executes the node it is at, and invoke always returns
FairSpec == Spec /\ WF_vars(Next)


(***************************************************************************)
(* Vocabulary of the properties.                                           *)
(***************************************************************************)
\* the field whose presence marks the progress made by stage n
Output(n) ==
  CASE n = "ingest" -> "raw_log_content"
    [] n = "parse" -> "primary_error"
    [] n = "triage" -> "triage_result"
    [] n = "research" -> "research_result"
    [] n = "synthesize" -> "debugging_brief"

\* the label stage n gives its audit messages
Label(n) ==
  CASE n = "ingest" -> "Ingest"
    [] n = "parse" -> "Parse"
    [] n = "triage" -> "Triage"
    [] n = "research" -> "Research"
    [] n = "synthesize" -> "Synthesis"

\* number of executions of stage n so far
Count(n) == Cardinality({i \in 1..Len(ran) : ran[i] = n})

Returned == pc = "returned"

\* this step executes stage n
Runs(n) == ran' = Append(ran, n)

\* this step executes stage n and the stage fails: no progress is recorded
Fails(n) == Runs(n) /\ pc' = "running" /\ state'[Output(n)] = None


AllOutputs == \A n \in Nodes : state[Output(n)] # None

\* some stage that ran has left its output unset
SomeStageFailed == \E i \in 1..Len(ran) : state[Output(ran[i])] = None

(***************************************************************************)
(* C1: if the triage collaborator fails on every call, triage is attempted *)
(* exactly MAX_FAILURES (3) times before the run gives up, and research    *)
(* and synthesize never run.  The workflow has no retry edge: the first    *)
(* failure of triage routes to END, so the returned run has attempted      *)
(* triage once.                                                            *)
(***************************************************************************)
C1_TriageAttemptedThreeTimes ==
  (Returned /\ Count("triage") > 0 /\ state.triage_result = None)
    => /\ Count("triage") = MAX_FAILURES
       /\ Count("research") = 0
       /\ Count("synthesize") = 0

(***************************************************************************)
(* C2 as stated: a failing stage never changes the phase tag, so a run     *)
(* that ends on a failure still carries the phase the last successful      *)
(* stage set.                                                              *)
(***************************************************************************)
C2_FailingStageKeepsPhase ==
  [][\A n \in Nodes :
       Fails(n) => state'.current_phase = state.current_phase]_vars

(***************************************************************************)
(* C2 amended: every failing stage sets the phase tag to "failed", so a    *)
(* run that ends because a stage failed returns with phase "failed".       *)
(***************************************************************************)
C2_FailingStageSetsFailed ==
  /\ [][\A n \in Nodes : Fails(n) => state'.current_phase = FAILED]_vars
  /\ []((Returned /\ SomeStageFailed) => state.current_phase = FAILED)

C2_Witness ==
  /\ Returned
  /\ ran = <<"ingest", "parse", "triage">>
  /\ state.parse_result # None
  /\ state.triage_result = None
  /\ state.current_phase = FAILED

\* the log source returned absent on this run
NothingToAnalyze ==
  \E i \in 1..Len(state.messages) :
    state.messages[i] = "Ingest: No failed builds to analyze"

(***************************************************************************)
(* C3 as stated: when the log source returns absent the run ends right     *)
(* after ingest with phase "ingesting" and no error_message.               *)
(***************************************************************************)
C3_AbsentEndsAtIngesting ==
  (Returned /\ NothingToAnalyze)
    => /\ state.current_phase = INGESTING
       /\ state.error_message = None
       /\ ran = <<"ingest">>

(***************************************************************************)
(* C3 amended: when the log source returns absent the run ends right       *)
(* after ingest with phase "failed" and error_message set to the fixed     *)
(* "No failed builds found or build succeeded"; no later stage runs and    *)
(* no output field is set.                                                 *)
(***************************************************************************)
C3_AbsentEndsFailed ==
  NothingToAnalyze
    => /\ state.current_phase = FAILED
       /\ state.error_message
            = Some("No failed builds found or build succeeded")
       /\ ran = <<"ingest">>
       /\ node = END
       /\ \A n \in Nodes : state[Output(n)] = None

C3_Witness == Returned /\ NothingToAnalyze

(***************************************************************************)
(* C5: every run terminates: under fair scheduling of the graph the run    *)
(* returns, and it returns either with all five stage outputs produced or  *)
(* after a stage has failed.                                               *)
(***************************************************************************)
C5_RunTerminates ==
  /\ <>Returned
  /\ [](Returned => (AllOutputs \/ SomeStageFailed))

C5_Witness == Returned /\ AllOutputs /\ Len(ran) = 5

\* the node function the graph holds for node n
NodeFn(n, s, outcome) ==
  CASE n = "ingest" -> ingest_node(s, outcome)
    [] n = "parse" -> parse_node(s, outcome)
    [] n = "triage" -> triage_node(s, outcome)
    [] n = "research" -> research_node(s, outcome)
    [] n = "synthesize" -> synthesize_node(s, outcome)

(***************************************************************************)
(* C6: no exception leaves a stage function: whenever the collaborator of  *)
(* the stage about to run raises e, the stage returns an update that sets  *)
(* error_message to "<Stage> failed: e" and carries exactly one audit      *)
(* message, and no run is ever ended by an exception.                      *)
(***************************************************************************)
C6_StagesAbsorbExceptions ==
  /\ pc # "raised"
  /\ node \in Nodes =>
       \A e \in Exceptions :
         LET r == NodeFn(node, state, Raises(e))
         IN /\ r.exc = None
            /\ "error_message" \in DOMAIN r.update
            /\ r.update.error_message
                 = Some(Label(node) \o " failed: " \o e)
            /\ "messages" \in DOMAIN r.update
            /\ Len(r.update.messages) = 1

C6_Witness ==
  /\ Returned
  /\ ran = <<"ingest", "parse", "triage", "research", "synthesize">>
  /\ state.error_message = Some("Synthesis failed: connection reset")
  /\ Len(state.messages) = 6

CompleteChain ==
  /\ state.primary_error # None
  /\ state.triage_result # None
  /\ state.research_result # None
  /\ state.debugging_brief # None
  /\ state.current_phase = COMPLETED

FailedOutcome ==
  /\ state.error_message # None
  /\ state.debugging_brief = None

\* the audit trail holds, in order, one message of every stage that ran
AuditComplete ==
  /\ Len(state.messages) = Len(ran) + 1
  /\ \A i \in 1..Len(ran) :
       Prefix(state.messages[i + 1], Len(Label(ran[i])) + 1)
         = Label(ran[i]) \o ":"

(***************************************************************************)
(* C7: a returned run carries exactly one of: the complete artifact chain  *)
(* with phase "completed", or an error_message without a debugging brief;  *)
(* either way the audit trail holds the message of every stage that ran.   *)
(***************************************************************************)
C7_TerminalOutcome ==
  Returned => /\ CompleteChain # FailedOutcome
              /\ AuditComplete

C7_Witness ==
  /\ Returned
  /\ FailedOutcome
  /\ ~CompleteChain
  /\ Len(ran) = 4

EarlierFields ==
  {"raw_log_content", "log_file_path", "parse_result", "primary_error",
   "triage_result", "research_result"}

Bookkeeping == {"error_message", "current_phase", "messages"}

(***************************************************************************)
(* C8: no step changes an already populated raw log, log location, parse   *)
(* result, primary error, triage result or research result, and a failing  *)
(* stage changes nothing but error_message, the phase tag and the audit    *)
(* log.                                                                    *)
(***************************************************************************)
C8_StagesKeepEarlierFields ==
  [][/\ \A f \in EarlierFields : state[f] # None => state'[f] = state[f]
     /\ \A n \in Nodes :
          Fails(n) => \A f \in Fields \ Bookkeeping : state'[f] = state[f]
    ]_vars

C8_Witness ==
  /\ Returned
  /\ ran = <<"ingest", "parse", "triage", "research">>
  /\ state.raw_log_content # None
  /\ state.primary_error # None
  /\ state.triage_result # None
  /\ state.research_result = None

\* position of a phase in the stage order
Rank(phase) ==
  CASE phase = INITIALIZED -> 0
    [] phase = INGESTING -> 1
    [] phase = PARSING -> 2
    [] phase = TRIAGING -> 3
    [] phase = RESEARCHING -> 4
    [] phase = SYNTHESIZING -> 5
    [] phase = COMPLETED -> 6
    [] phase = FAILED -> 7

(***************************************************************************)
(* C9: the phase tag never moves back in the order initialized, ingesting, *)
(* parsing, triaging, researching, synthesizing, completed; the only other *)
(* move is into "failed", which can be entered from any phase and is not   *)
(* left.                                                                   *)
(***************************************************************************)
C9_PhaseMonotonic ==
  [][\/ state'.current_phase = FAILED
     \/ /\ state.current_phase # FAILED
        /\ Rank(state'.current_phase) >= Rank(state.current_phase)
    ]_vars

C9_Witness ==
  /\ Returned
  /\ state.current_phase = COMPLETED
  /\ Len(ran) = 5

(***************************************************************************)
(* C10: the audit log is append-only: every stage execution keeps the      *)
(* previous messages as a prefix and appends exactly one message, so the   *)
(* log always holds the initialization message plus one message per stage  *)
(* execution.                                                              *)
(***************************************************************************)
C10_AuditLogAppendOnly ==
  /\ [][/\ SubSeq(state'.messages, 1, Len(state.messages)) = state.messages
        /\ \A n \in Nodes :
             Runs(n) => Len(state'.messages) = Len(state.messages) + 1
       ]_vars
  /\ [](Len(state.messages) = 1 + Len(ran))

C10_Witness ==
  /\ Returned
  /\ Len(ran) = 5
  /\ Len(state.messages) = 6
  /\ state.messages[1] = "Workflow initialized for repository: owner/a"

(***************************************************************************)
(* Strings: the str operations the log parser uses.  Positions count from  *)
(* 1; a text is one string whose lines are separated by "\n".              *)
(***************************************************************************)
Max(a, b) == IF a > b THEN a ELSE b

\* s[i-1:i] of Python: the character at position i, "" outside the string
Char(s, i) == IF i \in 1..Len(s) THEN SubSeq(s, i, i) ELSE ""

\* s[n:] of Python
Drop(s, n) == SubSeq(s, n + 1, Len(s))

\* s.startswith(p, i - 1)
At(s, i, p) ==
  /\ i >= 1
  /\ i + Len(p) - 1 <= Len(s)
  /\ SubSeq(s, i, i + Len(p) - 1) = p

StartsWith(s, p) == At(s, 1, p)

\* s.find(p, i - 1) + 1: the first position >= i where p occurs, 0 if none
FindFrom(s, p, i) ==
  LET found == {j \in Max(i, 1)..(Len(s) - Len(p) + 1) : At(s, j, p)}
  IN IF found = {} THEN 0 ELSE CHOOSE j \in found : \A k \in found : j <= k

\* p in s
Contains(s, p) == FindFrom(s, p, 1) # 0

\* \s of re and the characters str.strip removes
Whitespace == {" ", "\t", "\n"}
\* \d
Digits == {"0", "1", "2", "3", "4", "5", "6", "7", "8", "9"}
UpperCase == "ABCDEFGHIJKLMNOPQRSTUVWXYZ"
LowerCase == "abcdefghijklmnopqrstuvwxyz"
\* \w
WordChars ==
  Digits \cup {"_"} \cup {SubSeq(UpperCase, i, i) : i \in 1..26}
         \cup {SubSeq(LowerCase, i, i) : i \in 1..26}
\* ["\'] of PYTHON_STACK_FRAME and NODE_MODULE_ERROR
Quotes == {"\"", "'"}

RECURSIVE Span(_, _, _)
\* the length of the longest run of characters of cls that starts at i
Span(s, i, cls) ==
  IF i <= Len(s) /\ SubSeq(s, i, i) \in cls
  THEN 1 + Span(s, i + 1, cls)
  ELSE 0

RECURSIVE SpanNot(_, _, _)
\* the length of the longest run of characters outside cls that starts at i
SpanNot(s, i, cls) ==
  IF i <= Len(s) /\ SubSeq(s, i, i) \notin cls
  THEN 1 + SpanNot(s, i + 1, cls)
  ELSE 0

\* the position after a greedy \s* that starts at i
SkipWs(s, i) == i + Span(s, i, Whitespace)

RECURSIVE RStrip(_)
RStrip(s) ==
  IF s # "" /\ SubSeq(s, Len(s), Len(s)) \in Whitespace
  THEN RStrip(SubSeq(s, 1, Len(s) - 1))
  ELSE s

\* s.strip()
Strip(s) == RStrip(Drop(s, Span(s, 1, Whitespace)))

RECURSIVE Lower(_)
\* s.lower(), one half of the string after the other
Lower(s) ==
  IF Len(s) <= 1
  THEN LET u == FindFrom(UpperCase, s, 1)
       IN IF s = "" \/ u = 0 THEN s ELSE SubSeq(LowerCase, u, u)
  ELSE Lower(SubSeq(s, 1, Len(s) \div 2)) \o Lower(Drop(s, Len(s) \div 2))

RECURSIVE int(_)
\* int(s) of a string of decimal digits
int(s) ==
  IF s = "" THEN 0
  ELSE int(SubSeq(s, 1, Len(s) - 1)) * 10
       + (FindFrom("0123456789", SubSeq(s, Len(s), Len(s)), 1) - 1)

RECURSIVE Split(_)
\* s.split('\n')
Split(s) ==
  LET n == FindFrom(s, "\n", 1)
  IN IF n = 0 THEN <<s>>
     ELSE <<SubSeq(s, 1, n - 1)>> \o Split(Drop(s, n))

RECURSIVE Join(_)
\* '\n'.join(lines)
Join(lines) ==
  IF lines = <<>> THEN ""
  ELSE IF Len(lines) = 1 THEN lines[1]
  ELSE lines[1] \o "\n" \o Join(Tail(lines))

\* the position of the last character of the line that position i is on
\* (i - 1 when the line is empty)
LineEnd(s, i) == i + SpanNot(s, i, {"\n"}) - 1

\* the start of the line after the one position i is on; past the end of the
\* text when there is none
NextLine(s, i) == LineEnd(s, i) + 2

(***************************************************************************)
(* ErrorCategory and LogPatterns.  A pattern is the operator that finds    *)
(* the matches of its regular expression: the anchored ones take the start *)
(* of a line, the others the position the scan resumes from.               *)
(***************************************************************************)
DEPENDENCY == "dependency"
SYNTAX == "syntax"
TEST_FAILURE == "test_failure"
CONFIGURATION == "configuration"
BUILD == "build"
RUNTIME == "runtime"
NETWORK == "network"
PERMISSION == "permission"
TIMEOUT == "timeout"
UNKNOWN == "unknown"

ErrorCategory ==
  {DEPENDENCY, SYNTAX, TEST_FAILURE, CONFIGURATION, BUILD, RUNTIME, NETWORK,
   PERMISSION, TIMEOUT, UNKNOWN}

\* ^\d{4}-\d{2}-\d{2}T\d{2}:\d{2}:\d{2}\. with d for \d
TimestampShape == "dddd-dd-ddTdd:dd:dd."

\* the length of the match of TIMESTAMP at the start of a line, 0 if none
TIMESTAMP(line) ==
  IF \A i \in 1..Len(TimestampShape) :
       IF Char(TimestampShape, i) = "d"
       THEN Char(line, i) \in Digits
       ELSE Char(line, i) = Char(TimestampShape, i)
  THEN LET z == Len(TimestampShape) + 1
                + Span(line, Len(TimestampShape) + 1, Digits)
       IN IF z > Len(TimestampShape) + 1 /\ Char(line, z) = "Z"
          THEN z + Span(line, z + 1, Whitespace)
          ELSE 0
  ELSE 0

\* \s*(.+)$ from position j on: None, or the captured text and the position
\* of its last character.  \s* runs over line ends; when only white space
\* follows, it gives back the last character that . can match.
MessageFrom(s, j) ==
  LET m == SkipWs(s, j)
      back == {q \in j..Len(s) : Char(s, q) # "\n"}
  IN IF m <= Len(s)
     THEN Some([text |-> SubSeq(s, m, LineEnd(s, m)), last |-> LineEnd(s, m)])
     ELSE IF back = {} THEN None
     ELSE LET q == CHOOSE q \in back : \A r \in back : r <= q
          IN Some([text |-> Char(s, q), last |-> q])

\* the match a line pattern found: what its head matched, its message
\* group, the position it starts at and the position of its last character
Match(type, m, i) ==
  IF m = None THEN None
  ELSE Some([type |-> type, message |-> m[1].text, start |-> i,
             last |-> m[1].last])

PYTHON_ERROR_TYPES ==
  <<"ModuleNotFoundError", "ImportError", "SyntaxError", "IndentationError",
    "TypeError", "ValueError", "KeyError", "AttributeError", "NameError",
    "FileNotFoundError", "RuntimeError", "ZeroDivisionError", "IndexError",
    "AssertionError", "Exception", "OSError", "IOError", "PermissionError",
    "ConnectionError", "TimeoutError">>

\* the match of PYTHON_ERROR at the line start i
PYTHON_ERROR(s, i) ==
  LET colon(k) == SkipWs(s, i + Len(PYTHON_ERROR_TYPES[k]))
      heads == {k \in 1..Len(PYTHON_ERROR_TYPES) :
                  /\ At(s, i, PYTHON_ERROR_TYPES[k])
                  /\ Char(s, colon(k)) = ":"}
  IN IF heads = {} THEN None
     ELSE LET k == CHOOSE k \in heads : \A h \in heads : k <= h
          IN Match(PYTHON_ERROR_TYPES[k], MessageFrom(s, colon(k) + 1), i)

\* the match of NPM_ERROR at the line start i
NPM_ERROR(s, i) ==
  IF At(s, i, "npm ERR!")
  THEN Match("npm ERR!", MessageFrom(s, i + Len("npm ERR!")), i)
  ELSE None

\* the match of GENERIC_ERROR at the line start i
GENERIC_ERROR(s, i) ==
  LET heads == {h \in {"Error", "ERROR", "error"} : At(s, i, h \o ":")}
  IN IF heads = {} THEN None
     ELSE LET h == CHOOSE h \in heads : TRUE
          IN Match(h, MessageFrom(s, i + Len(h) + 1), i)

LinePattern(pattern, s, i) ==
  CASE pattern = "PYTHON_ERROR" -> PYTHON_ERROR(s, i)
    [] pattern = "NPM_ERROR" -> NPM_ERROR(s, i)
    [] pattern = "GENERIC_ERROR" -> GENERIC_ERROR(s, i)

RECURSIVE finditer(_, _, _)
\* pattern.finditer(s), scanning from the line start i: a match starts at
\* the start of a line and the scan resumes after the line its message ends
finditer(pattern, s, i) ==
  IF i > Len(s) THEN <<>>
  ELSE LET m == LinePattern(pattern, s, i)
       IN IF m = None
          THEN finditer(pattern, s, NextLine(s, i))
          ELSE m \o finditer(pattern, s, NextLine(s, m[1].last))

\* pattern.findall(s) of a pattern with one group
findall(pattern, s) ==
  LET ms == finditer(pattern, s, 1) IN [k \in 1..Len(ms) |-> ms[k].message]

RECURSIVE GH_ERROR(_, _)
\* GH_ERROR.findall(s), scanning from position i
GH_ERROR(s, i) ==
  LET p == FindFrom(s, "##[error]", i)
      g == p + Len("##[error]")
  IN IF p = 0 THEN <<>>
     ELSE IF Char(s, g) \in {"", "\n"} THEN GH_ERROR(s, p + 1)
     ELSE <<SubSeq(s, g, LineEnd(s, g))>> \o GH_ERROR(s, LineEnd(s, g) + 1)

RECURSIVE EXIT_CODE(_, _)
\* the digits EXIT_CODE.search(s) captures, scanning from position i; every
\* alternative of the pattern ends with "exit code", whatever the case
EXIT_CODE(s, i) ==
  LET p == FindFrom(Lower(s), "exit code", i)
      d == p + Len("exit code")
           + Span(s, p + Len("exit code"), Whitespace \cup {":"})
      n == Span(s, d, Digits)
  IN IF p = 0 THEN None
     ELSE IF d > p + Len("exit code") /\ n > 0
     THEN Some(SubSeq(s, d, d + n - 1))
     ELSE EXIT_CODE(s, p + 1)

RECURSIVE NODE_MODULE_ERROR(_, _)
\* NODE_MODULE_ERROR.findall(s), scanning from position i
NODE_MODULE_ERROR(s, i) ==
  LET p == FindFrom(Lower(s), "cannot find module ", i)
      q == p + Len("cannot find module ")
      n == SpanNot(s, q + 1, Quotes)
  IN IF p = 0 THEN <<>>
     ELSE IF Char(s, q) \in Quotes /\ n > 0 /\ Char(s, q + 1 + n) \in Quotes
     THEN <<SubSeq(s, q + 1, q + n)>> \o NODE_MODULE_ERROR(s, q + n + 2)
     ELSE NODE_MODULE_ERROR(s, p + 1)

\* the position after the first match of PYTHON_TRACEBACK_START, 0 if none
PYTHON_TRACEBACK_START(s) ==
  LET p == FindFrom(s, "Traceback (most recent call last):", 1)
  IN IF p = 0 THEN 0 ELSE p + Len("Traceback (most recent call last):")

\* StackFrame
StackFrame(file, line_number, function) ==
  [file |-> file, line_number |-> line_number, function |-> function,
   code |-> None]

RECURSIVE PYTHON_STACK_FRAME(_, _)
\* the groups of PYTHON_STACK_FRAME.search(s), scanning from position i
PYTHON_STACK_FRAME(s, i) ==
  LET p == FindFrom(s, "File ", i)
      f == p + Len("File ") + 1
      nf == SpanNot(s, f, Quotes)
      l == SkipWs(s, f + nf + 2)
      d == l + Len("line ")
      nd == Span(s, d, Digits)
      w == SkipWs(s, d + nd + 1) + Len("in ")
      nw == Span(s, w, WordChars)
  IN IF p = 0 THEN None
     ELSE IF /\ Char(s, f - 1) \in Quotes
             /\ nf > 0
             /\ Char(s, f + nf) \in Quotes
             /\ Char(s, f + nf + 1) = ","
             /\ At(s, l, "line ")
             /\ nd > 0
     THEN Some([file |-> SubSeq(s, f, f + nf - 1),
                line |-> SubSeq(s, d, d + nd - 1),
                function |->
                  IF /\ Char(s, d + nd) = ","
                     /\ At(s, w - Len("in "), "in ")
                     /\ nw > 0
                  THEN Some(SubSeq(s, w, w + nw - 1))
                  ELSE None])
     ELSE PYTHON_STACK_FRAME(s, p + 1)

\* the end of the lazy group of FAILED_STEP that starts at c: the position
\* of the first "\n" or "##[endgroup]" after at least one character, 0 if
\* the text ends first
RECURSIVE GroupEnd(_, _)
GroupEnd(s, j) ==
  IF j > Len(s) THEN 0
  ELSE IF Char(s, j) = "\n" \/ At(s, j, "##[endgroup]") THEN j
  ELSE GroupEnd(s, j + 1)

RECURSIVE FAILED_STEP(_, _)
\* FAILED_STEP.findall(s), scanning from position i
FAILED_STEP(s, i) ==
  LET p == FindFrom(s, "##[group]Run ", i)
      c == p + Len("##[group]Run ")
      e == GroupEnd(s, c + 1)
  IN IF p = 0 THEN <<>>
     ELSE IF e = 0 THEN FAILED_STEP(s, p + 1)
     ELSE <<SubSeq(s, c, e - 1)>>
          \o FAILED_STEP(s, IF Char(s, e) = "\n" THEN e + 1
                            ELSE e + Len("##[endgroup]"))

(***************************************************************************)
(* The helper functions of the log parser.                                 *)
(***************************************************************************)
remove_timestamps(log_content) ==
  LET lines == Split(log_content)
  IN Join([k \in 1..Len(lines) |-> Drop(lines[k], TIMESTAMP(lines[k]))])

\* any(x in s for x in xs)
ContainsAny(s, xs) == \E x \in xs : Contains(s, x)

classify_error_FileCategory(error_type, error_message) ==
  LET error_type_lower == Lower(error_type)
      message_lower == Lower(error_message)
  IN IF ContainsAny(error_type_lower, {"modulenotfound", "import", "module"})
     THEN DEPENDENCY
     ELSE IF Contains(message_lower, "cannot find module") THEN DEPENDENCY
     ELSE IF Contains(message_lower, "no module named") THEN DEPENDENCY
     ELSE IF Contains(message_lower, "npm err") THEN DEPENDENCY
     ELSE IF ContainsAny(error_type_lower, {"syntax", "indentation"})
     THEN SYNTAX
     ELSE IF Contains(error_type_lower, "assertion") THEN TEST_FAILURE
     ELSE IF Contains(message_lower, "failed") /\ Contains(message_lower, "test")
     THEN TEST_FAILURE
     ELSE IF \/ Contains(error_type_lower, "permission")
             \/ Contains(message_lower, "permission denied")
     THEN PERMISSION
     ELSE IF ContainsAny(error_type_lower, {"connection", "timeout", "network"})
     THEN NETWORK
     ELSE IF ContainsAny(message_lower,
                         {"connection refused", "network", "timeout"})
     THEN NETWORK
     ELSE IF Contains(error_type_lower, "filenotfound") THEN "file"
     ELSE IF ContainsAny(error_type_lower,
                         {"type", "value", "key", "attribute", "name", "index"})
     THEN RUNTIME
     ELSE UNKNOWN

\* the network rules come before the permission rules
classify_error_NetworkFirst(error_type, error_message) ==
  LET error_type_lower == Lower(error_type)
      message_lower == Lower(error_message)
  IN IF ContainsAny(error_type_lower, {"modulenotfound", "import", "module"})
     THEN DEPENDENCY
     ELSE IF Contains(message_lower, "cannot find module") THEN DEPENDENCY
     ELSE IF Contains(message_lower, "no module named") THEN DEPENDENCY
     ELSE IF Contains(message_lower, "npm err") THEN DEPENDENCY
     ELSE IF ContainsAny(error_type_lower, {"syntax", "indentation"})
     THEN SYNTAX
     ELSE IF Contains(error_type_lower, "assertion") THEN TEST_FAILURE
     ELSE IF Contains(message_lower, "failed") /\ Contains(message_lower, "test")
     THEN TEST_FAILURE
     ELSE IF ContainsAny(error_type_lower, {"connection", "timeout", "network"})
     THEN NETWORK
     ELSE IF ContainsAny(message_lower,
                         {"connection refused", "network", "timeout"})
     THEN NETWORK
     ELSE IF \/ Contains(error_type_lower, "permission")
             \/ Contains(message_lower, "permission denied")
     THEN PERMISSION
     ELSE IF Contains(error_type_lower, "filenotfound") THEN CONFIGURATION
     ELSE IF ContainsAny(error_type_lower,
                         {"type", "value", "key", "attribute", "name", "index"})
     THEN RUNTIME
     ELSE UNKNOWN

classify_error(error_type, error_message) ==
  LET error_type_lower == Lower(error_type)
      message_lower == Lower(error_message)
  IN IF ContainsAny(error_type_lower, {"modulenotfound", "import", "module"})
     THEN DEPENDENCY
     ELSE IF Contains(message_lower, "cannot find module") THEN DEPENDENCY
     ELSE IF Contains(message_lower, "no module named") THEN DEPENDENCY
     ELSE IF Contains(message_lower, "npm err") THEN DEPENDENCY
     ELSE IF ContainsAny(error_type_lower, {"syntax", "indentation"})
     THEN SYNTAX
     ELSE IF Contains(error_type_lower, "assertion") THEN TEST_FAILURE
     ELSE IF Contains(message_lower, "failed") /\ Contains(message_lower, "test")
     THEN TEST_FAILURE
     ELSE IF \/ Contains(error_type_lower, "permission")
             \/ Contains(message_lower, "permission denied")
     THEN PERMISSION
     ELSE IF ContainsAny(error_type_lower, {"connection", "timeout", "network"})
     THEN NETWORK
     ELSE IF ContainsAny(message_lower,
                         {"connection refused", "network", "timeout"})
     THEN NETWORK
     ELSE IF Contains(error_type_lower, "filenotfound") THEN CONFIGURATION
     ELSE IF ContainsAny(error_type_lower,
                         {"type", "value", "key", "attribute", "name", "index"})
     THEN RUNTIME
     ELSE UNKNOWN

RECURSIVE TracebackLines(_, _, _, _)
\* the loop of extract_python_stack_trace over the lines after the marker,
\* from line k on, with the stack_lines and stack_frames gathered so far
TracebackLines(lines, k, stack_lines, stack_frames) ==
  IF k > Len(lines)
  THEN [stack_lines |-> stack_lines, stack_frames |-> stack_frames]
  ELSE
    LET stripped == Strip(lines[k])
        frame_match == PYTHON_STACK_FRAME(stripped, 1)
    IN IF stripped = ""
       THEN TracebackLines(lines, k + 1, stack_lines, stack_frames)
       ELSE IF PYTHON_ERROR(stripped, 1) # None
       THEN [stack_lines |-> stack_lines, stack_frames |-> stack_frames]
       ELSE IF frame_match # None
       THEN TracebackLines(lines, k + 1, Append(stack_lines, stripped),
              Append(stack_frames,
                     StackFrame(frame_match[1].file, int(frame_match[1].line),
                                frame_match[1].function)))
       ELSE IF StartsWith(stripped, "File ") \/ StartsWith(stripped, "  ")
       THEN TracebackLines(lines, k + 1, Append(stack_lines, stripped),
              IF stack_frames # <<>> /\ ~StartsWith(stripped, "File ")
              THEN [stack_frames
                      EXCEPT ![Len(stack_frames)].code = Some(stripped)]
              ELSE stack_frames)
       ELSE TracebackLines(lines, k + 1, stack_lines, stack_frames)

extract_python_stack_trace(log_content) ==
  LET start_pos == PYTHON_TRACEBACK_START(log_content)
  IN IF start_pos = 0
     THEN [stack_lines |-> <<>>, stack_frames |-> <<>>]
     ELSE TracebackLines(Split(Drop(log_content, start_pos - 1)), 1,
                         <<>>, <<>>)

\* LogParser._find_failed_step; error_start is the position of the first
\* character of the match
find_failed_step(content, error_start) ==
  LET groups == FAILED_STEP(SubSeq(content, 1, error_start - 1), 1)
  IN IF groups # <<>>
     THEN Some(Split(Strip(groups[Len(groups)]))[1])
     ELSE None

context_lines == 10

RECURSIVE ErrorLineIdx(_, _, _, _)
\* the loop of LogParser._extract_error_block: the index, from 0, of the
\* first line at whose end char_count reaches error_position
ErrorLineIdx(lines, k, char_count, error_position) ==
  IF k > Len(lines) THEN 0
  ELSE IF char_count + Len(lines[k]) + 1 >= error_position THEN k - 1
  ELSE ErrorLineIdx(lines, k + 1, char_count + Len(lines[k]) + 1,
                    error_position)

\* LogParser._extract_error_block
extract_error_block(content, error_start) ==
  LET lines == Split(content)
      error_line_idx == ErrorLineIdx(lines, 1, 0, error_start - 1)
      start_idx == Max(0, error_line_idx - context_lines)
      end_idx == Min(Len(lines), error_line_idx + context_lines + 1)
  IN Join(SubSeq(lines, start_idx + 1, end_idx))

(***************************************************************************)
(* LogParser                                                               *)
(***************************************************************************)
ParsedError(error_type, error_message, error_category, failed_step, exit_code, stack_trace, stack_frames, relevant_lines, raw_error_block) ==
  [error_type |-> error_type,
   error_message |-> error_message,
   error_category |-> error_category,
   failed_step |-> failed_step,
   exit_code |-> exit_code,
   stack_trace |-> stack_trace,
   stack_frames |-> stack_frames,
   relevant_lines |-> relevant_lines,
   raw_error_block |-> raw_error_block]

\* the exit code of the log is left out
PlainError_NoExitCode(error_type, error_message, error_category, exit_code) ==
  ParsedError(error_type, error_message, error_category, None, None,
              <<>>, <<>>, <<>>, "")

\* a ParsedError built from its first four keyword arguments
PlainError(error_type, error_message, error_category, exit_code) ==
  ParsedError(error_type, error_message, error_category, None, exit_code,
              <<>>, <<>>, <<>>, "")

\* STEP 1: the exit code of the log
ExitCode(cleaned_content) ==
  LET exit_code_match == EXIT_CODE(cleaned_content, 1)
  IN IF exit_code_match # None THEN Some(int(exit_code_match[1])) ELSE None

\* the body of the loop of STEP 2 for one match of PYTHON_ERROR
PythonError(cleaned_content, match, exit_code) ==
  LET error_type == match.type
      error_message == Strip(match.message)
      error_start == match.start
      preceding_content == SubSeq(cleaned_content, 1, error_start - 1)
      stack == extract_python_stack_trace(preceding_content)
  IN ParsedError(error_type, error_message,
                 classify_error(error_type, error_message),
                 find_failed_step(cleaned_content, error_start),
                 exit_code, stack.stack_lines, stack.stack_frames, <<>>,
                 extract_error_block(cleaned_content, error_start))

\* STEP 2: Python errors
PythonErrors(cleaned_content, exit_code) ==
  LET python_error_matches == finditer("PYTHON_ERROR", cleaned_content, 1)
  IN [k \in 1..Len(python_error_matches) |->
        PythonError(cleaned_content, python_error_matches[k], exit_code)]

NpmRelevantLines == 10

NodeErrors_AllLines(cleaned_content, exit_code) ==
  LET npm_errors == findall("NPM_ERROR", cleaned_content)
      node_module_errors == NODE_MODULE_ERROR(cleaned_content, 1)
  IN IF node_module_errors # <<>>
     THEN [k \in 1..Len(node_module_errors) |->
             PlainError("ModuleNotFoundError",
                        "Cannot find module '" \o node_module_errors[k] \o "'",
                        DEPENDENCY, exit_code)]
     ELSE IF npm_errors # <<>>
     THEN <<ParsedError("NpmError", npm_errors[1], DEPENDENCY, None, exit_code,
                        <<>>, <<>>, npm_errors, "")>>
     ELSE <<>>

\* STEP 3: npm and Node.js errors
NodeErrors(cleaned_content, exit_code) ==
  LET npm_errors == findall("NPM_ERROR", cleaned_content)
      node_module_errors == NODE_MODULE_ERROR(cleaned_content, 1)
  IN IF node_module_errors # <<>>
     THEN [k \in 1..Len(node_module_errors) |->
             PlainError("ModuleNotFoundError",
                        "Cannot find module '" \o node_module_errors[k] \o "'",
                        DEPENDENCY, exit_code)]
     ELSE IF npm_errors # <<>>
     THEN <<ParsedError("NpmError", npm_errors[1], DEPENDENCY, None, exit_code,
                        <<>>, <<>>, Prefix(npm_errors, NpmRelevantLines), "")>>
     ELSE <<>>

GenericErrorLimit == 3

\* STEP 4: generic errors
GenericErrors(cleaned_content, exit_code) ==
  LET generic_errors == findall("GENERIC_ERROR", cleaned_content)
      first == Prefix(generic_errors, GenericErrorLimit)
  IN [k \in 1..Len(first) |->
        PlainError("Error", Strip(first[k]), UNKNOWN, exit_code)]

\* STEP 5: the ##[error] markers, as a fallback
GitHubErrors_KeepExitLines(cleaned_content, exit_code) ==
  LET gh_errors == GH_ERROR(cleaned_content, 1)
  IN [k \in 1..Len(gh_errors) |->
        PlainError("GitHubActionsError", Strip(gh_errors[k]), UNKNOWN,
                   exit_code)]

GitHubErrors(cleaned_content, exit_code) ==
  LET gh_errors == GH_ERROR(cleaned_content, 1)
      kept == SelectSeq(gh_errors,
                LAMBDA gh_error :
                  ~Contains(gh_error, "Process completed with exit code"))
  IN [k \in 1..Len(kept) |->
        PlainError("GitHubActionsError", Strip(kept[k]), UNKNOWN, exit_code)]

\* every strategy adds what it finds
Errors_Accumulate(cleaned_content) ==
  LET exit_code == ExitCode(cleaned_content)
  IN PythonErrors(cleaned_content, exit_code)
     \o NodeErrors(cleaned_content, exit_code)
     \o GenericErrors(cleaned_content, exit_code)
     \o GitHubErrors(cleaned_content, exit_code)

\* the errors list of parse_content before STEP 6
Errors(cleaned_content) ==
  LET exit_code == ExitCode(cleaned_content)
      python_errors == PythonErrors(cleaned_content, exit_code)
      node_errors == NodeErrors(cleaned_content, exit_code)
      generic_errors == GenericErrors(cleaned_content, exit_code)
  IN IF python_errors # <<>> THEN python_errors
     ELSE IF node_errors # <<>> THEN node_errors
     ELSE IF generic_errors # <<>> THEN generic_errors
     ELSE GitHubErrors(cleaned_content, exit_code)

\* the fields of a LogParseResult that STEP 6 does not compute from errors
Counted(result, total_lines) ==
  [f \in DOMAIN result \cup {"total_lines"} |->
     IF f = "total_lines" THEN total_lines ELSE result[f]]

parse_content(log_content) ==
  LET total_lines == Len(Split(log_content))
      cleaned_content == remove_timestamps(log_content)
  IN Counted(LogParseResult(Errors(cleaned_content)), total_lines)

\* str(Path(file_path)) for the paths of LogPaths: a leading "./" is dropped
Path(file_path) ==
  IF StartsWith(file_path, "./") THEN Drop(file_path, 2) ELSE file_path

\* Path.read_text on what the file system holds at the path
read_text(file) ==
  IF file = None THEN Raises("FileNotFoundError") ELSE Returns(file[1])

parse_file_NoExistsCheck(file_path, file) ==
  LET log_content == read_text(file)
  IN IF log_content.exc # None THEN log_content
     ELSE Returns(parse_content(log_content.ret))

\* LogParser.parse_file; file is what the file system holds at file_path,
\* None when nothing exists there
parse_file(file_path, file) ==
  IF file = None
  THEN Returns(Counted(FileNotFoundResult(Path(file_path)), 0))
  ELSE LET log_content == read_text(file)
       IN IF log_content.exc # None THEN log_content
          ELSE Returns(parse_content(log_content.ret))

parse_log_file(file_path, file) == parse_file(file_path, file)

(***************************************************************************)
(* The calls of the log parser and of the classifier.  A log is the lines  *)
(* of up to MaxBlocks blocks, or MaxNpmLines lines of npm at most.         *)
(***************************************************************************)
\* largest number of blocks of a log
MaxBlocks == 2
\* largest number of lines of a log of npm errors
MaxNpmLines == 11
\* largest number of lines before, and after, the exception line of a log
MaxContextLines == 11

Blocks ==
  { "",
    "Tests completed",
    "Traceback (most recent call last):\n  File \"a.py\", line 3, in f\n    x = y\nModuleNotFoundError: No module named 'requests'",
    "##[group]Run python app.py\nTraceback (most recent call last):\n  File \"b.py\", line 7, in g\n    g()\n  File 'c.py',line 12\n2025-12-19T06:33:34.9138563Z KeyError: 'k'",
    "ValueError: ",
    "npm ERR! missing script: test",
    "Error: Cannot find module 'express'",
    "Error: build failed",
    "Error: ",
    "##[error]Process completed with exit code 1",
    "##[error]Unhandled failure" }

RECURSIVE NpmLog(_)
\* n lines of npm errors
NpmLog(n) ==
  IF n = 1 THEN "npm ERR! line 1"
  ELSE NpmLog(n - 1) \o "\nnpm ERR! line " \o ToString(n)

RECURSIVE Numbered(_, _)
\* the n lines "<word> 1" to "<word> n", each followed by a line end
Numbered(word, n) ==
  IF n = 0 THEN ""
  ELSE Numbered(word, n - 1) \o word \o " " \o ToString(n) \o "\n"

\* an exception line with b lines before it and a lines after it
ContextLog(b, a) ==
  Numbered("step", b) \o "KeyError: 'k'\n" \o Numbered("after", a) \o "done"

\* two exceptions, each before an exit-code marker of its own
ExitCodeLog ==
  "KeyError: 'k'\nExit code: 2\nValueError: v\n##[error]Process completed with exit code 1"

Logs ==
  {Join(blocks) : blocks \in UNION {[1..n -> Blocks] : n \in 0..MaxBlocks}}
    \cup {NpmLog(n) : n \in 1..MaxNpmLines}
    \cup {ContextLog(b, a) : b, a \in {0, 1, MaxContextLines}}
    \cup {ExitCodeLog}

LogPaths == {"output/build_log.txt", "./logs/run.txt"}

\* the calls of parse_log_file: a path where nothing exists, or the path of
\* a log
ParseCalls ==
  {[file_path |-> p, file |-> None] : p \in LogPaths}
    \cup {[file_path |-> "output/build_log.txt", file |-> Some(log)] :
            log \in Logs}

ErrorTypes ==
  {PYTHON_ERROR_TYPES[k] : k \in 1..Len(PYTHON_ERROR_TYPES)}
    \cup {"NpmError", "Error", "GitHubActionsError", "", "NETWORKERROR"}

ErrorMessages ==
  { "", " ", "No module named 'requests'", "Cannot find module 'express'",
    "npm ERR! code ELIFECYCLE", "2 tests FAILED", "Permission denied",
    "Connection refused", "Read timeout", "invalid syntax", "build failed" }

\* the calls of classify_error
ClassifyCalls == [error_type : ErrorTypes, error_message : ErrorMessages]

\* the variables of the workflow, which these calls do not touch
NoWorkflow ==
  /\ state = create_initial_state("owner/a")
  /\ node = END
  /\ ran = <<>>
  /\ pc = "returned"
  /\ time = 0
  /\ calls = <<>>
  /\ last_call_time = 0
  /\ attempt = 0
  /\ slept = <<>>

ParseInit ==
  /\ NoWorkflow
  /\ input \in ParseCalls
  /\ output = None

\* result = parse_log_file(file_path)
CallParseLogFile ==
  /\ input \in ParseCalls
  /\ output = None
  /\ output' = Some(parse_log_file(input.file_path, input.file))
  /\ UNCHANGED <<state, node, ran, pc, input>>
  /\ UNCHANGED <<time, calls, last_call_time, attempt, slept>>

ParseSpec == ParseInit /\ [][CallParseLogFile]_vars

ClassifyInit ==
  /\ NoWorkflow
  /\ input \in ClassifyCalls
  /\ output = None

\* category = classify_error(error_type, error_message)
CallClassifyError ==
  /\ input \in ClassifyCalls
  /\ output = None
  /\ output' = Some(classify_error(input.error_type, input.error_message))
  /\ UNCHANGED <<state, node, ran, pc, input>>
  /\ UNCHANGED <<time, calls, last_call_time, attempt, slept>>

ClassifySpec == ClassifyInit /\ [][CallClassifyError]_vars

(***************************************************************************)
(* Vocabulary of the properties of the parser.                             *)
(***************************************************************************)
\* the call of the parser has returned a result
Parsed == output # None /\ output[1].exc = None

\* the LogParseResult the call returned
Result == output[1].ret

\* the call parsed the text of a log
ParsedLog == Parsed /\ input.file # None

\* the text of the log, and the text the detection strategies scan
Log == input.file[1]
Cleaned == remove_timestamps(Log)

NoSpecificError == "No specific error identified (check raw logs)"

(***************************************************************************)
(* C11: every result parse returns, for the text of a log and for a        *)
(* missing file alike, has error_count equal to the length of its error    *)
(* list, and its primary error is absent when the list is empty and is the *)
(* first element of the list otherwise.                                    *)
(***************************************************************************)
C11_CountAndPrimary ==
  Parsed =>
    /\ Result.error_count = Len(Result.errors)
    /\ Result.errors = <<>> => Result.primary_error = None
    /\ Result.errors # <<>> => Result.primary_error = Some(Result.errors[1])

\* a result with two different errors, the first of which is the primary
C11_Witness ==
  /\ ParsedLog
  /\ Result.error_count = 2
  /\ Result.errors[1] # Result.errors[2]
  /\ Result.primary_error = Some(Result.errors[1])

(***************************************************************************)
(* C12: when no detection strategy recognizes an error in the log (no      *)
(* exception line, no "cannot find module", no npm line, no "Error:" line, *)
(* and no ##[error] marker other than "Process completed with exit code"), *)
(* parse returns success, error_count 0, no primary error and the fixed    *)
(* summary.                                                                *)
(***************************************************************************)
Unrecognized ==
  /\ finditer("PYTHON_ERROR", Cleaned, 1) = <<>>
  /\ NODE_MODULE_ERROR(Cleaned, 1) = <<>>
  /\ finditer("NPM_ERROR", Cleaned, 1) = <<>>
  /\ finditer("GENERIC_ERROR", Cleaned, 1) = <<>>
  /\ \A k \in DOMAIN GH_ERROR(Cleaned, 1) :
       Contains(GH_ERROR(Cleaned, 1)[k], "Process completed with exit code")

C12_NoMatchResult ==
  (ParsedLog /\ Unrecognized) =>
    /\ Result.success
    /\ Result.error_count = 0
    /\ Result.errors = <<>>
    /\ Result.primary_error = None
    /\ Result.summary = NoSpecificError

\* a log whose only marker is the exit code line of the platform
C12_Witness ==
  /\ ParsedLog
  /\ Unrecognized
  /\ GH_ERROR(Cleaned, 1) # <<>>
  /\ Result.success
  /\ Result.summary = NoSpecificError

TenCategories ==
  {"dependency", "syntax", "test_failure", "configuration", "build",
   "runtime", "network", "permission", "timeout", "unknown"}

TracebackMarker == "Traceback (most recent call last):"

ExceptionLines == finditer("PYTHON_ERROR", Cleaned, 1)

\* the text between the last traceback marker before the k-th exception
\* line and that line, when no other exception line lies in between
OwnBlock(k) ==
  LET i == ExceptionLines[k].start
      previous == IF k = 1 THEN 0 ELSE ExceptionLines[k - 1].start
      markers == {p \in 1..(i - 1) : At(Cleaned, p, TracebackMarker)}
      last == CHOOSE p \in markers : \A q \in markers : q <= p
  IN IF markers # {} /\ last > previous
     THEN Some(SubSeq(Cleaned, last + Len(TracebackMarker), i - 1))
     ELSE None

\* file, line number and function of the stack-frame-shaped lines of a block
FrameShaped(block) ==
  LET shaped == SelectSeq(Split(block),
                          LAMBDA l : PYTHON_STACK_FRAME(l, 1) # None)
  IN [j \in 1..Len(shaped) |->
        LET g == PYTHON_STACK_FRAME(shaped[j], 1)[1]
        IN [file |-> g.file, line_number |-> int(g.line),
            function |-> g.function]]

\* file, line number and function of the stack frames of a ParsedError
Frames(e) ==
  [j \in 1..Len(e.stack_frames) |->
     [file |-> e.stack_frames[j].file,
      line_number |-> e.stack_frames[j].line_number,
      function |-> e.stack_frames[j].function]]

C15_FramesOfOwnBlock ==
  ParsedLog =>
    \A k \in DOMAIN ExceptionLines :
      OwnBlock(k) # None =>
        Frames(Result.errors[k]) = FrameShaped(OwnBlock(k)[1])

(***************************************************************************)
(* C16 as stated: every ParsedError of a parse result has a category, a    *)
(* non-empty error_type and a non-empty error_message.                     *)
(***************************************************************************)
C16_ErrorsAreFilled ==
  ParsedLog =>
    \A k \in DOMAIN Result.errors :
      /\ Result.errors[k].error_category \in ErrorCategory
      /\ Result.errors[k].error_type # ""
      /\ Result.errors[k].error_message # ""

(***************************************************************************)
(* C17: a log with no exception line and no "cannot find module" phrase    *)
(* but with npm ERR! lines.                                                *)
(***************************************************************************)
NpmLines ==
  SelectSeq(Split(Cleaned), LAMBDA l : StartsWith(l, "npm ERR!"))

NpmOnly ==
  /\ ParsedLog
  /\ ExceptionLines = <<>>
  /\ ~Contains(Lower(Cleaned), "cannot find module")
  /\ NpmLines # <<>>

\* what follows the marker and the white space after it on an npm ERR! line
NpmText(l) == Drop(l, SkipWs(l, Len("npm ERR!") + 1) - 1)

StageOrder == <<"ingest", "parse", "triage", "research", "synthesize">>

\* the stages before position k of the order have set their outputs, and
\* the stage at position k has not
FirstUnset(k) ==
  /\ state[Output(StageOrder[k])] = None
  /\ \A j \in 1..(k - 1) : state[Output(StageOrder[j])] # None

C18_DispatchFirstUnset ==
  /\ (pc = "running" /\ node \in Nodes) =>
       \E k \in DOMAIN StageOrder : node = StageOrder[k] /\ FirstUnset(k)
  /\ AllOutputs => node = END

\* the graph is about to execute research, the first stage without output
C18_Witness ==
  /\ pc = "running"
  /\ node = "research"
  /\ FirstUnset(4)
  /\ ran = <<"ingest", "parse", "triage">>

(***************************************************************************)
(* C19 as stated: whenever a stage function succeeds on a state whose      *)
(* error_message is set, the update it returns clears error_message.       *)
(***************************************************************************)
\* what the collaborator of stage n can hand to the stage on state s
Collaborator(n, s) ==
  CASE n = "ingest" -> {Returns(None)} \cup Outcomes(FetchedLogs)
    [] n = "parse" -> IF FalsyStr(s.log_file_path)
                      THEN {Returns(None)}
                      ELSE Outcomes(ParseResults(s.log_file_path[1]))
    [] n = "triage" -> Outcomes(TriageResults)
    [] n = "research" -> Outcomes(ResearchResults)
    [] n = "synthesize" -> Outcomes(DebuggingBriefs)

\* the update r of stage n records progress: it sets the output of n
Progress(n, r) ==
  /\ r.exc = None
  /\ Output(n) \in DOMAIN r.update
  /\ r.update[Output(n)] # None

C19_SuccessClearsError ==
  state.error_message # None =>
    \A n \in Nodes :
      \A outcome \in Collaborator(n, state) :
        LET r == NodeFn(n, state, outcome)
        IN Progress(n, r) => Merge(state, r.update).error_message = None

(***************************************************************************)
(* C19 amended: a stage that succeeds leaves error_message as it was; no   *)
(* stage is ever executed on a state whose error_message is set, because   *)
(* the run ends at the first failure, so after any stage success of a run  *)
(* the state carries no error message.                                     *)
(***************************************************************************)
C19_SuccessLeavesNoError ==
  [][\A n \in Nodes :
       Runs(n) =>
         /\ state.error_message = None
         /\ (pc' = "running" /\ state'[Output(n)] # None) =>
              /\ state'.error_message = state.error_message
              /\ state'.error_message = None]_vars

\* parse has just succeeded and the state carries no error message
C19_Witness ==
  /\ ran = <<"ingest", "parse">>
  /\ state.primary_error # None
  /\ state.error_message = None

(***************************************************************************)
(* C20 as stated: when the log parses with success = true and an empty     *)
(* error list, the parse stage leaves primary_error and parse_result       *)
(* unset and sets error_message, triage is not the next stage, and the     *)
(* parse stage is executed again, as its first failure leaves attempts in  *)
(* its failure budget.                                                     *)
(***************************************************************************)
C20_NoMatchIsRetried ==
  (pc = "running" /\ node = "parse" /\ ~FalsyStr(state.log_file_path)) =>
    LET r == parse_node(state, Returns(Some(LogParseResult(<<>>))))
        after == Merge(state, r.update)
    IN /\ r.exc = None
       /\ after.primary_error = None
       /\ after.parse_result = None
       /\ after.error_message # None
       /\ Edge("parse", after) # "triage"
       /\ Count("parse") + 1 < MAX_FAILURES => Edge("parse", after) = "parse"

(***************************************************************************)
(* C22: the detection strategies are fallbacks, not accumulators: all the  *)
(* errors of a parse result come from one strategy, the first in the order *)
(* exception lines, "cannot find module" captures, the one combined npm    *)
(* error, at most 3 generic "Error:" lines of category unknown, platform   *)
(* error markers, that finds something; a later strategy adds nothing.     *)
(***************************************************************************)
\* the strategy that builds a ParsedError of this shape
Strategy(e) ==
  CASE e.error_type = "NpmError" -> "npm"
    [] e.error_type = "Error" -> "generic"
    [] e.error_type = "GitHubActionsError" -> "platform"
    [] e.error_type = "ModuleNotFoundError" /\ e.raw_error_block = ""
         -> "node"
    [] OTHER -> "exception"

\* what each strategy finds in the cleaned log
NodeCaptures == NODE_MODULE_ERROR(Cleaned, 1)
GenericLines == finditer("GENERIC_ERROR", Cleaned, 1)
PlatformMarkers ==
  SelectSeq(GH_ERROR(Cleaned, 1),
            LAMBDA g : ~Contains(g, "Process completed with exit code"))

\* the first strategy that finds something, and how many errors it gives
FirstStrategy ==
  IF ExceptionLines # <<>> THEN <<"exception", Len(ExceptionLines)>>
  ELSE IF NodeCaptures # <<>> THEN <<"node", Len(NodeCaptures)>>
  ELSE IF finditer("NPM_ERROR", Cleaned, 1) # <<>> THEN <<"npm", 1>>
  ELSE IF GenericLines # <<>> THEN <<"generic", Min(3, Len(GenericLines))>>
  ELSE <<"platform", Len(PlatformMarkers)>>

RuleOrder ==
  <<DEPENDENCY, SYNTAX, TEST_FAILURE, PERMISSION, NETWORK, CONFIGURATION,
    RUNTIME>>

\* some rule of the category matches the type t or the message m
RuleMatches(category, t, m) ==
  CASE category = DEPENDENCY ->
         \/ ContainsAny(Lower(t), {"modulenotfound", "import", "module"})
         \/ ContainsAny(Lower(m), {"cannot find module", "no module named",
                                   "npm err"})
    [] category = SYNTAX -> ContainsAny(Lower(t), {"syntax", "indentation"})
    [] category = TEST_FAILURE ->
         \/ Contains(Lower(t), "assertion")
         \/ Contains(Lower(m), "failed") /\ Contains(Lower(m), "test")
    [] category = PERMISSION ->
         \/ Contains(Lower(t), "permission")
         \/ Contains(Lower(m), "permission denied")
    [] category = NETWORK ->
         \/ ContainsAny(Lower(t), {"connection", "timeout", "network"})
         \/ ContainsAny(Lower(m), {"connection refused", "network", "timeout"})
    [] category = CONFIGURATION -> Contains(Lower(t), "filenotfound")
    [] category = RUNTIME ->
         ContainsAny(Lower(t),
                     {"type", "value", "key", "attribute", "name", "index"})

\* the categories whose rules match the call, by their place in the order
Matching ==
  {k \in DOMAIN RuleOrder :
     RuleMatches(RuleOrder[k], input.error_type, input.error_message)}

C23_FirstRuleWins ==
  (input \in ClassifyCalls /\ output # None) =>
    output[1] = IF Matching = {} THEN UNKNOWN
                ELSE RuleOrder[CHOOSE k \in Matching : \A j \in Matching : k <= j]

\* a type of the network rules with a message of the permission rules, in
\* another case than the keywords: permission comes first
C23_Witness ==
  /\ input \in ClassifyCalls
  /\ input.error_type = "NETWORKERROR"
  /\ input.error_message = "Permission denied"
  /\ Matching = {4, 5}
  /\ output = Some(PERMISSION)

(***************************************************************************)
(* C24 as stated: for each exception line with a traceback marker before   *)
(* it, the stack frames of its ParsedError are those found by scanning     *)
(* from the most recent marker before the line, over blank lines, up to    *)
(* the first exception-type line after that marker: the frames of the      *)
(* nearest traceback, not those of an earlier block.                       *)
(***************************************************************************)
\* the position of the last traceback marker before the k-th exception
\* line, 0 when there is none
NearestMarker(k) ==
  LET markers == {p \in 1..(ExceptionLines[k].start - 1) :
                    At(Cleaned, p, TracebackMarker)}
  IN IF markers = {} THEN 0
     ELSE CHOOSE p \in markers : \A q \in markers : q <= p

\* the lines from that marker to the k-th exception line, cut at the first
\* line that is itself an exception-type line
ScannedLines(k) ==
  LET lines == Split(SubSeq(Cleaned, NearestMarker(k) + Len(TracebackMarker),
                            ExceptionLines[k].start - 1))
      stops == {j \in DOMAIN lines : PYTHON_ERROR(Strip(lines[j]), 1) # None}
  IN IF stops = {} THEN lines
     ELSE SubSeq(lines, 1, (CHOOSE j \in stops : \A i \in stops : j <= i) - 1)

C24_NearestTraceback ==
  ParsedLog =>
    \A k \in DOMAIN ExceptionLines :
      NearestMarker(k) # 0 =>
        Frames(Result.errors[k]) = FrameShaped(Join(ScannedLines(k)))

(***************************************************************************)
(* C25 as stated: in the traceback of the first exception of a log, every  *)
(* stack-frame line that is immediately followed by an indented line that  *)
(* is not a stack-frame line gives a frame whose code is that line, and    *)
(* the line is among the raw stack-trace lines; a frame with no such line  *)
(* after it has no code.                                                   *)
(***************************************************************************)
FrameShapedLine(l) == PYTHON_STACK_FRAME(l, 1) # None

\* the line is indented, not blank and not a stack-frame line
SnippetLine(l) ==
  /\ Char(l, 1) \in {" ", "\t"}
  /\ Strip(l) # ""
  /\ ~FrameShapedLine(l)

\* the indices of the stack-frame lines among lines, in order
ShapedIndices(lines) ==
  SelectSeq([j \in 1..Len(lines) |-> j], LAMBDA j : FrameShapedLine(lines[j]))

C25_FrameSnippets ==
  (ParsedLog /\ ExceptionLines # <<>> /\ NearestMarker(1) # 0) =>
    LET lines == ScannedLines(1)
        shaped == ShapedIndices(lines)
        e == Result.errors[1]
    IN /\ Len(e.stack_frames) = Len(shaped)
       /\ \A n \in DOMAIN shaped :
            IF shaped[n] < Len(lines) /\ SnippetLine(lines[shaped[n] + 1])
            THEN /\ e.stack_frames[n].code
                      = Some(Strip(lines[shaped[n] + 1]))
                 /\ \E t \in DOMAIN e.stack_trace :
                      e.stack_trace[t] = Strip(lines[shaped[n] + 1])
            ELSE e.stack_frames[n].code = None

(***************************************************************************)
(* C26 as stated: the context block of an error detected on line i of the  *)
(* cleaned log, counting from 0, is made of the lines max(0, i - 10) to    *)
(* min(last, i + 10) of the cleaned log, in order.                         *)
(***************************************************************************)
\* the index, from 0, of the line of the cleaned log that position p is on
LineIndex(p) == Len(Split(SubSeq(Cleaned, 1, p - 1))) - 1

C26_ContextWindow ==
  ParsedLog =>
    \A k \in DOMAIN ExceptionLines :
      LET lines == Split(Cleaned)
          i == LineIndex(ExceptionLines[k].start)
      IN Result.errors[k].raw_error_block
           = Join(SubSeq(lines, Max(0, i - 10) + 1,
                         Min(Len(lines) - 1, i + 10) + 1))

(***************************************************************************)
(* C27: all errors of one parse result carry the same exit code: the       *)
(* integer of the first exit-code marker of the text, or none when the     *)
(* text has no such marker, whatever step or traceback they come from.     *)
(***************************************************************************)
\* the integer after the first "exit code" of the log, whatever its case
FirstExitCode ==
  LET p == FindFrom(Lower(Cleaned), "exit code", 1)
      d == SkipWs(Cleaned, p + Len("exit code") + 1)
  IN IF p = 0 THEN None
     ELSE Some(int(SubSeq(Cleaned, d, d + Span(Cleaned, d, Digits) - 1)))

C27_OneExitCode ==
  ParsedLog =>
    \A k \in DOMAIN Result.errors :
      Result.errors[k].exit_code = FirstExitCode

\* two exceptions in a log with two different exit codes: both carry the
\* first one
C27_Witness ==
  /\ ParsedLog
  /\ Log = ExitCodeLog
  /\ Len(Result.errors) = 2
  /\ \A k \in 1..2 : Result.errors[k].exit_code = Some(2)

(***************************************************************************)
(* C28: in every state of a run the populated outputs form a prefix of the *)
(* stage order: a debugging brief implies a research result, which implies *)
(* a triage result, which implies a primary error and a parse result,      *)
(* which imply a raw log content and a log location; and the phase is      *)
(* 'completed', with a completion timestamp, exactly when the debugging    *)
(* brief is set.                                                           *)
(***************************************************************************)
Populated(f) == state[f] # None

C28_OutputsFormPrefix ==
  /\ Populated("debugging_brief") => Populated("research_result")
  /\ Populated("research_result") => Populated("triage_result")
  /\ Populated("triage_result")
       => Populated("primary_error") /\ Populated("parse_result")
  /\ Populated("primary_error") \/ Populated("parse_result")
       => Populated("raw_log_content") /\ Populated("log_file_path")
  /\ state.current_phase = COMPLETED <=> Populated("debugging_brief")
  /\ state.current_phase = COMPLETED => Populated("completed_at")

\* synthesize has just produced the brief of a run that went all the way
C28_Witness ==
  /\ ran = StageOrder
  /\ Populated("debugging_brief")
  /\ state.current_phase = COMPLETED
  /\ Populated("completed_at")
  /\ pc = "running"

C21_MinimumDelayBetweenCalls ==
  \A i, j \in DOMAIN calls :
    i < j => calls[j] - calls[i] >= MIN_DELAY_BETWEEN_CALLS

(***************************************************************************)
(* rate_limited_invoke(chain, input_vars, max_retries) of utils/llm.py.    *)
(* The chain of a call is the sequence of what its successive invocations  *)
(* do; pc is the position in the function: "delay" before the minimum      *)
(* delay, "try" at the head of the loop body, "except" in the handler with *)
(* the exception in output, "returned" and "raised" once the call is over, *)
(* "loaded" before the call.                                               *)
(***************************************************************************)
\* largest max_retries argument of a call
MaxRetries == 3

\* b ** e
RECURSIVE Pow(_, _)
Pow(b, e) == IF e = 0 THEN 1 ELSE b * Pow(b, e - 1)

\* the texts of the exceptions chain.invoke raises
ChainErrors == Exceptions \cup {"429 Too Many Requests"}

ChainOutcomes ==
  {Returns(Some("response"))} \cup {Raises(e) : e \in ChainErrors}

InvokeCalls ==
  UNION {{[chain |-> chain, max_retries |-> max_retries] :
            chain \in [1..(max_retries + 1) -> ChainOutcomes]} :
         max_retries \in (-1)..MaxRetries}

\* the module is loaded and nothing has called the chain yet
InvokeInit ==
  /\ state = create_initial_state("owner/a")
  /\ node = END
  /\ ran = <<>>
  /\ pc = "loaded"
  /\ input = None
  /\ output = None
  /\ time = 0
  /\ calls = <<>>
  /\ last_call_time = 0
  /\ attempt = 0
  /\ slept = <<>>

\* rate_limited_invoke is called, some seconds after the load
rate_limited_invoke ==
  /\ pc = "loaded"
  /\ input' \in InvokeCalls
  /\ time' \in 0..MIN_DELAY_BETWEEN_CALLS
  /\ pc' = "delay"
  /\ UNCHANGED <<state, node, ran, output, calls, last_call_time, attempt,
                 slept>>

\* Ensure minimum delay between calls
wait_min_delay ==
  /\ pc = "delay"
  /\ LET elapsed == time - last_call_time IN
     IF elapsed < MIN_DELAY_BETWEEN_CALLS
     THEN LET wait_time == MIN_DELAY_BETWEEN_CALLS - elapsed IN
          /\ slept' = Append(slept, wait_time)
          /\ time' = time + wait_time
     ELSE UNCHANGED <<slept, time>>
  /\ pc' = "try"
  /\ UNCHANGED <<state, node, ran, input, output, calls, last_call_time,
                 attempt>>

\* the body of "for attempt in range(max_retries + 1)", and the raise that
\* follows the loop when the range is exhausted
try_invoke ==
  /\ pc = "try"
  /\ IF attempt \in 0..input.max_retries
     THEN /\ last_call_time' = time
          /\ calls' = Append(calls, time)
          /\ output' = Some(input.chain[Len(calls) + 1])
          /\ pc' = IF input.chain[Len(calls) + 1].exc = None
                   THEN "returned" ELSE "except"
     ELSE /\ output' = Some(Raises("Max retries exceeded"))
          /\ pc' = "raised"
          /\ UNCHANGED <<last_call_time, calls>>
  /\ UNCHANGED <<state, node, ran, input, time, attempt, slept>>

\* every error is taken for a throttling error
Throttled_AnyError(error_str) == TRUE

\* Check if it's a throttling error
Throttled(error_str) ==
  Contains(error_str, "throttling") \/ Contains(error_str, "too many requests")

\* error_str = str(e).lower() and the check of it, for each error of the chain
ThrottlingError == [e \in ChainErrors |-> Throttled(Lower(e))]

\* the handler sleeps and continues with the next attempt
retry_after_backoff ==
  /\ pc = "except"
  /\ ThrottlingError[output[1].exc[1]]
  /\ attempt < input.max_retries
  /\ LET wait_time == Pow(BACKOFF_FACTOR, attempt + 1) IN
     /\ slept' = Append(slept, wait_time)
     /\ time' = time + wait_time
  /\ attempt' = attempt + 1
  /\ pc' = "try"
  /\ UNCHANGED <<state, node, ran, input, output, calls, last_call_time>>

\* Not a throttling error or max retries exceeded
reraise ==
  /\ pc = "except"
  /\ ~(ThrottlingError[output[1].exc[1]] /\ attempt < input.max_retries)
  /\ pc' = "raised"
  /\ UNCHANGED <<state, node, ran, input, output, time, calls,
                 last_call_time, attempt, slept>>

InvokeNext ==
  rate_limited_invoke \/ wait_min_delay \/ try_invoke \/ retry_after_backoff \/ reraise

InvokeSpec == InvokeInit /\ [][InvokeNext]_vars

\* a sleep ends and chain.invoke comes back
FairInvokeSpec == InvokeSpec /\ WF_vars(InvokeNext)

(***************************************************************************)
(* C30: rate_limited_invoke with max_retries >= 0 invokes the chain at     *)
(* most max_retries + 1 times; it retries only after an error whose text   *)
(* contains 'throttling' or 'too many requests', waiting                   *)
(* BACKOFF_FACTOR^(attempt+1) seconds, a strictly increasing wait, before  *)
(* each retry; any other error is re-raised on its first occurrence, a     *)
(* throttling error on the last attempt is re-raised, and the call always  *)
(* ends returning the chain's result or raising the chain's last error.    *)
(***************************************************************************)
\* rate_limited_invoke has been called with max_retries >= 0
Called == pc # "loaded" /\ input.max_retries >= 0

\* the call is over
Ended == pc \in {"returned", "raised"}

\* the text of the exception the handler holds
Caught == output[1].exc[1]

\* the text names throttling, in any case of letters
SaysThrottling(text) ==
  \/ Contains(Lower(text), "throttling")
  \/ Contains(Lower(text), "too many requests")

\* this step goes from the handler to a further attempt
Retries == pc = "except" /\ pc' = "try"

C30_RetryOnlyThrottling ==
  /\ [](Called => Len(calls) <= input.max_retries + 1)
  /\ [][Called /\ Retries
          => /\ SaysThrottling(Caught)
             /\ attempt' = attempt + 1
             /\ attempt' <= input.max_retries
             /\ slept' = Append(slept, Pow(BACKOFF_FACTOR, attempt + 1))
             /\ time' = time + Pow(BACKOFF_FACTOR, attempt + 1)
             /\ (attempt > 0
                   => Pow(BACKOFF_FACTOR, attempt + 1) > slept[Len(slept)])
       ]_vars
  /\ [][Called /\ pc = "except"
          /\ (~SaysThrottling(Caught) \/ attempt = input.max_retries)
          => pc' = "raised" /\ output' = output /\ calls' = calls]_vars
  /\ [](Called /\ Ended
          => /\ calls # <<>>
             /\ output = Some(input.chain[Len(calls)])
             /\ (pc = "returned" <=> output[1].exc = None))
  /\ <>Ended

\* the default number of retries, all used up on throttling errors: four
\* invocations, waits of 2, 4 and 8 seconds, and the last error raised
C30_Witness ==
  /\ pc = "raised"
  /\ input.max_retries = MAX_RETRIES
  /\ Len(calls) = MAX_RETRIES + 1
  /\ slept = <<2, 4, 8>>
  /\ SaysThrottling(Caught)

====
